---- MODULE Spec2Model ----
(***************************************************************************)
(* Model of go/types/call.go: typechecking of call expressions             *)
(* (checker.call, checker.argument) and of selector expressions            *)
(* (checker.selector).                                                     *)
(*                                                                         *)
(* Types are named by strings.  A signature is a record of its parameter   *)
(* types, its result types and its isVariadic flag.  An operand is the     *)
(* record the checker threads through an expression: mode, typ, val, expr. *)
(* Positions are 0-based as in the source; sequences are 1-based, so       *)
(* parameter i of the source is params[i + 1].                             *)
(***************************************************************************)
EXTENDS Integers, Sequences, FiniteSets

VARIABLES
    pc,         \* position of the checker inside call / selector
    op,         \* "none", "call" or "selector": the expression being checked
    callee,     \* what check.exprOrType made of e.Fun
    isPkg,      \* e.X names an imported package
    base,       \* the operand check.exprOrType made of e.X
    x,          \* the operand *x
    diags,      \* sequence of diagnostics reported so far (errorf / invalidOp)
    matched,    \* log of checker.argument invocations
    evaluated,  \* 0-based indices of e.Args passed to check.expr, in order
    recorded,   \* log of check.recordObject calls
    sig,        \* the callee's signature
    args,       \* outcome of check.expr for each of e.Args
    ellipsis,   \* e.Ellipsis.IsValid()
    passSlice,  \* local passSlice of call
    n,          \* local n of call
    i,          \* loop index of call
    sel,        \* e.Sel.Name
    decl,       \* per type: how it declares a member named sel
    embPtr,     \* per embedded type: whether it is embedded through a pointer
    lk          \* result of LookupFieldOrMethod: obj, index, indirect

vars == <<pc, op, callee, isPkg, base, x, diags, matched, evaluated, recorded, sig, args, ellipsis,
          passSlice, n, i, sel, decl, embPtr, lk>>

----------------------------------------------------------------------------
(* Bounds of the model *)

MaxParams == 3
MaxArgs == 3
MaxTuple == 3

----------------------------------------------------------------------------
(* Types *)

ParamTypes == {"int", "string"}
SliceTypes == {"[]int", "[]string"}

\* x.typ.(*Slice)
IsSlice(t) == t \in SliceTypes

\* typ.(*Slice).elt
Elt(t) == IF t = "[]int" THEN "int" ELSE "string"

NoType ==
    [kind |-> "none", name |-> "", vars |-> <<>>,
     params |-> <<>>, results |-> <<>>, isVariadic |-> FALSE]

Basic(nm) == [NoType EXCEPT !.kind = "basic", !.name = nm]

TupleOf(vs) == [NoType EXCEPT !.kind = "tuple", !.vars = vs]

SigType(s) ==
    [NoType EXCEPT !.kind = "signature", !.params = s.params,
                   !.results = s.results, !.isVariadic = s.isVariadic]

Operand(m, t) == [mode |-> m, typ |-> t, val |-> "", expr |-> "none"]

InvalidOperand == Operand("invalid", NoType)

SeqsUpTo(S, k) == UNION {[1..m -> S] : m \in 0..k}

----------------------------------------------------------------------------
(* Inputs of a call: signatures and the outcomes of evaluating arguments *)

ResultLists == {<<>>, <<"int">>, <<"int", "string">>}

\* A variadic signature's last parameter has a slice type (Signature invariant).
Signatures ==
    {[params |-> p, results |-> r, isVariadic |-> FALSE] :
        p \in SeqsUpTo(ParamTypes, MaxParams), r \in ResultLists}
    \cup
    {[params |-> p \o <<s>>, results |-> r, isVariadic |-> TRUE] :
        p \in SeqsUpTo(ParamTypes, MaxParams - 1), s \in SliceTypes,
        r \in ResultLists}

NoSig == [params |-> <<>>, results |-> <<>>, isVariadic |-> FALSE]

\* Outcomes of check.expr on one argument: it failed, it is a typed value,
\* or it is an untyped constant.
ArgOperands ==
    {InvalidOperand}
    \cup {Operand("value", Basic(t)) : t \in {"int", "string", "[]string"}}
    \cup {Operand("constant", Basic("untyped"))}

\* A multi-valued call used as an argument has a Tuple type of >= 2 components.
TupleOperands ==
    {Operand("value", TupleOf(v)) :
        v \in UNION {[1..m -> {"int", "string", "[]string"}] : m \in 2..MaxTuple}}

\* The argument lists of the model: single-valued arguments, or one
\* multi-valued call as the only argument.
ArgLists == SeqsUpTo(ArgOperands, MaxArgs) \cup {<<t>> : t \in TupleOperands}

\* Name of an operand's type as logged by the model.
TypeNameOf(xx) == IF xx.typ.kind = "tuple" THEN "tuple" ELSE xx.typ.name

----------------------------------------------------------------------------
(* check.assignment: the assignability collaborator *)

\* An untyped constant is converted to the target type, and one that cannot
\* be converted is reported by the collaborator and invalidates x; a typed
\* operand is assignable to an identical type and is left alone.
Assignment(xx, typ) ==
    IF xx.mode = "invalid" THEN [ok |-> FALSE, x |-> xx]
    ELSE IF xx.typ.name = "untyped"
        THEN IF typ = "int"
             THEN [ok |-> TRUE, x |-> [xx EXCEPT !.typ = Basic("int")]]
             ELSE [ok |-> FALSE, x |-> [xx EXCEPT !.mode = "invalid"]]
    ELSE [ok |-> xx.typ.name = typ, x |-> xx]

----------------------------------------------------------------------------
(* checker.argument *)

Entry(idx, xx, ps, exp, d) ==
    [pos |-> idx, arg |-> TypeNameOf(xx), spread |-> ps, expected |-> exp,
     diag |-> d]

\* Mutant of NarrowToElt: the variadic slot itself is not narrowed.
NarrowToElt_AfterSlot(s, idx) == s.isVariadic /\ idx > Len(s.params) - 1

\* else-branch of "if passSlice", line 148
NarrowToElt(s, idx) == s.isVariadic /\ idx >= Len(s.params) - 1

\* line 140
SpreadPositionOk(s, idx) == idx = Len(s.params) - 1

\* Result: the operand after the call and the log entry of this invocation
\* (expected = "" when no assignment was attempted, diag = "" when silent).
Argument(s, idx, xx, ps) ==
    LET np == Len(s.params) IN
    IF idx >= np /\ ~s.isVariadic
    THEN [x |-> xx, entry |-> Entry(idx, xx, ps, "", "TooManyArguments")]
    ELSE
      LET typ0 == IF idx < np THEN s.params[idx + 1] ELSE s.params[np] IN
      IF ps /\ ~SpreadPositionOk(s, idx)
      THEN [x |-> xx, entry |-> Entry(idx, xx, ps, "", "SpreadPositionMismatch")]
      ELSE IF ps /\ ~(xx.typ.kind = "basic" /\ IsSlice(xx.typ.name))
      THEN [x |-> xx, entry |-> Entry(idx, xx, ps, "", "SpreadTypeMismatch")]
      ELSE
        LET typ == IF ~ps /\ NarrowToElt(s, idx) THEN Elt(typ0) ELSE typ0
            a == Assignment(xx, typ)
        IN [x |-> a.x,
            entry |-> Entry(idx, xx, ps, typ,
                            IF ~a.ok /\ a.x.mode # "invalid"
                            THEN "ArgumentTypeMismatch" ELSE "")]

\* Diagnostics an invocation of argument adds.
DiagOf(entry) == IF entry.diag = "" THEN <<>> ELSE <<entry.diag>>

----------------------------------------------------------------------------
(* checker.call *)

\* Mutant of PassSliceOf: the callee's isVariadic flag is not consulted.
PassSliceOf_AnyCallee(ell, s) == ell

\* lines 36-45
PassSliceOf(ell, s) == ell /\ s.isVariadic

\* lines 37-44: the diagnostic of a trailing ... on a non-variadic callee
EllipsisDiag(ell, s) ==
    IF ell /\ ~s.isVariadic THEN <<"SpreadOnNonVariadic">> ELSE <<>>

\* Mutant of IsTupleArg: a multi-valued argument is passed as one value.
IsTupleArg_Never(xx) == FALSE

\* line 54
IsTupleArg(xx) == xx.typ.kind = "tuple"

\* "passSlice && i == n-1", lines 61 and 75
SpreadAt(ps, idx, cnt) == ps /\ idx = cnt - 1

\* Mutant of FailedSingleCount: n is left at the number of expressions.
FailedSingleCount_Unadjusted(s) == 1

\* line 68
FailedSingleCount(s) == Len(s.params)

\* lines 81-85
AdjustedCount(cnt, s) == IF s.isVariadic THEN cnt + 1 ELSE cnt

\* line 86
TooFew(cnt, s) == cnt < Len(s.params)

\* lines 92-102: with no results only the mode (and expr) of x changes
ResultOperand(xx, s) ==
    IF Len(s.results) = 0
        THEN [xx EXCEPT !.mode = "novalue", !.expr = "e"]
    ELSE IF Len(s.results) = 1
        THEN [xx EXCEPT !.mode = "value", !.typ = Basic(s.results[1]),
                        !.expr = "e"]
    ELSE [xx EXCEPT !.mode = "value", !.typ = TupleOf(s.results), !.expr = "e"]

Indices(k) == [j \in 1..k |-> j - 1]

CallUnchanged == UNCHANGED <<isPkg, base, recorded, sel, decl, embPtr, lk>>

\* lines 15-26: the callee is invalid; the arguments are still evaluated
CallInvalidFun ==
    /\ pc = "idle"
    /\ callee' = "invalid"
    /\ \E as \in ArgLists :
        /\ args' = as
        /\ evaluated' = Indices(Len(as))
        /\ x' = [(IF Len(as) = 0 THEN InvalidOperand ELSE as[Len(as)])
                    EXCEPT !.mode = "invalid", !.expr = "e"]
    /\ op' = "call"
    /\ pc' = "done"
    /\ UNCHANGED <<diags, matched, sig, ellipsis, passSlice, n, i>>
    /\ CallUnchanged

\* lines 28-31: the callee is a type; check.conversion decides the operand
CallConversion ==
    /\ pc = "idle"
    /\ callee' = "typexpr"
    /\ \E as \in ArgLists : args' = as
    /\ \E m \in {"invalid", "value", "constant"}, t \in ParamTypes :
        x' = [mode |-> m, typ |-> IF m = "invalid" THEN NoType ELSE Basic(t),
              val |-> "", expr |-> "e"]
    /\ op' = "call"
    /\ pc' = "done"
    /\ UNCHANGED <<diags, matched, evaluated, sig, ellipsis, passSlice, n, i>>
    /\ CallUnchanged

\* lines 106-109: the callee is a builtin; check.builtin decides the operand
CallBuiltin ==
    /\ pc = "idle"
    /\ callee' = "builtin"
    /\ \E as \in ArgLists : args' = as
    /\ \E m \in {"invalid", "novalue", "value", "constant"}, t \in ParamTypes :
        x' = [mode |-> m, typ |-> IF m = "invalid" THEN NoType ELSE Basic(t),
              val |-> "", expr |-> "e"]
    /\ op' = "call"
    /\ pc' = "done"
    /\ UNCHANGED <<diags, matched, evaluated, sig, ellipsis, passSlice, n, i>>
    /\ CallUnchanged

\* lines 111-113: the callee is a value of a non-function type
CallNotCallable ==
    /\ pc = "idle"
    /\ callee' = "nonfunc"
    /\ \E as \in ArgLists : args' = as
    /\ diags' = Append(diags, "NotCallable")
    /\ \E m \in {"value", "variable", "constant"}, t \in ParamTypes :
        x' = [Operand(m, Basic(t)) EXCEPT !.mode = "invalid", !.expr = "e"]
    /\ op' = "call"
    /\ pc' = "done"
    /\ UNCHANGED <<matched, evaluated, sig, ellipsis, passSlice, n, i>>
    /\ CallUnchanged

\* lines 33-48 and the dispatch of line 49 / 70
CallSignature ==
    /\ pc = "idle"
    /\ callee' = "signature"
    /\ \E s \in Signatures, as \in ArgLists, ell \in BOOLEAN :
        /\ ell => Len(as) >= 1
        /\ sig' = s
        /\ args' = as
        /\ ellipsis' = ell
        /\ x' = Operand("value", SigType(s))
        /\ passSlice' = PassSliceOf(ell, s)
        /\ diags' = diags \o EllipsisDiag(ell, s)
        /\ n' = Len(as)
        /\ pc' = IF Len(as) = 1 THEN "single"
                 ELSE IF Len(as) = 0 THEN "arity" ELSE "multi"
    /\ op' = "call"
    /\ i' = 0
    /\ UNCHANGED <<matched, evaluated>>
    /\ CallUnchanged

\* lines 49-69
CallSingleArg ==
    /\ pc = "single"
    /\ evaluated' = Append(evaluated, 0)
    /\ LET a == args[1] IN
       IF a.mode # "invalid"
       THEN IF IsTupleArg(a)
            THEN /\ n' = Len(a.typ.vars)
                 /\ x' = a
                 /\ pc' = IF Len(a.typ.vars) > 0 THEN "tuple" ELSE "arity"
                 /\ UNCHANGED <<diags, matched>>
            ELSE LET r == Argument(sig, 0, a, passSlice) IN
                 /\ x' = r.x
                 /\ matched' = Append(matched, r.entry)
                 /\ diags' = diags \o DiagOf(r.entry)
                 /\ pc' = "arity"
                 /\ n' = n
       ELSE /\ n' = FailedSingleCount(sig)
            /\ x' = a
            /\ pc' = "arity"
            /\ UNCHANGED <<diags, matched>>
    /\ UNCHANGED <<op, callee, sig, args, ellipsis, passSlice, i>>
    /\ CallUnchanged

\* lines 57-62: one iteration over the components of the tuple
CallTupleStep ==
    /\ pc = "tuple"
    /\ i < n
    /\ LET t == args[1].typ
           xi == [x EXCEPT !.mode = "value", !.expr = "arg",
                           !.typ = Basic(t.vars[i + 1])]
           r == Argument(sig, i, xi, SpreadAt(passSlice, i, n))
       IN /\ x' = r.x
          /\ matched' = Append(matched, r.entry)
          /\ diags' = diags \o DiagOf(r.entry)
    /\ i' = i + 1
    /\ pc' = IF i + 1 < n THEN "tuple" ELSE "arity"
    /\ UNCHANGED <<op, callee, evaluated, sig, args, ellipsis, passSlice, n>>
    /\ CallUnchanged

\* lines 72-77: one iteration over e.Args
CallMultiStep ==
    /\ pc = "multi"
    /\ i < n
    /\ evaluated' = Append(evaluated, i)
    /\ LET a == args[i + 1] IN
       IF a.mode # "invalid"
       THEN LET r == Argument(sig, i, a, SpreadAt(passSlice, i, n)) IN
            /\ x' = r.x
            /\ matched' = Append(matched, r.entry)
            /\ diags' = diags \o DiagOf(r.entry)
       ELSE /\ x' = a
            /\ UNCHANGED <<diags, matched>>
    /\ i' = i + 1
    /\ pc' = IF i + 1 < n THEN "multi" ELSE "arity"
    /\ UNCHANGED <<op, callee, sig, args, ellipsis, passSlice, n>>
    /\ CallUnchanged

\* lines 80-89
CallArity ==
    /\ pc = "arity"
    /\ n' = AdjustedCount(n, sig)
    /\ diags' = IF TooFew(AdjustedCount(n, sig), sig)
                THEN Append(diags, "TooFewArguments") ELSE diags
    /\ pc' = "result"
    /\ UNCHANGED <<op, callee, x, matched, evaluated, sig, args, ellipsis, passSlice, i>>
    /\ CallUnchanged

\* lines 91-103
CallResult ==
    /\ pc = "result"
    /\ x' = ResultOperand(x, sig)
    /\ pc' = "done"
    /\ UNCHANGED <<op, callee, diags, matched, evaluated, sig, args, ellipsis,
                   passSlice, n, i>>
    /\ CallUnchanged

----------------------------------------------------------------------------
(* Inputs of a selector: names, package members, struct types *)

Names == {"X", "x"}

\* ast.IsExported: the name starts with an upper-case letter
IsExported(nm) == nm \in {"X"}

\* S embeds A and B, A embeds C; depth of A and B is 1, depth of C is 2.
StructTypes == {"S", "A", "B", "C"}
EmbeddedTypes == {"A", "B", "C"}

Embedded(t) ==
    CASE t = "S" -> <<"A", "B">>
      [] t = "A" -> <<"C">>
      [] OTHER -> <<>>

\* How a type may declare a member named sel.
DeclKinds == {"none", "field", "method", "ptrmethod"}

\* The signature of the method named sel that type t declares, if it does.
MethodSig(t) ==
    CASE t = "S" -> [params |-> <<>>, results |-> <<>>, isVariadic |-> FALSE]
      [] t = "A" -> [params |-> <<"int">>, results |-> <<"string">>,
                     isVariadic |-> FALSE]
      [] t = "B" -> [params |-> <<"int", "[]string">>, results |-> <<"int">>,
                     isVariadic |-> TRUE]
      [] OTHER -> [params |-> <<"string">>, results |-> <<"int", "string">>,
                   isVariadic |-> FALSE]

NilObj == [kind |-> "nil", name |-> "", owner |-> "", ptrRecv |-> FALSE,
           sig |-> NoSig]

PackageObj == [NilObj EXCEPT !.kind = "Package", !.name = "pkg"]

\* A member of the imported package pkg.
PkgMember(k, nm) == [NilObj EXCEPT !.kind = k, !.name = nm, !.owner = "pkg"]

\* The member named nm declared by struct type t with declaration kind k.
Member(t, k, nm) ==
    IF k = "field"
    THEN [NilObj EXCEPT !.kind = "Var", !.name = nm, !.owner = t]
    ELSE [kind |-> "Func", name |-> nm, owner |-> t,
          ptrRecv |-> (k = "ptrmethod"), sig |-> MethodSig(t)]

\* ptrRecv: the method's receiver is a pointer
PtrRecv(obj) == obj.ptrRecv

NilIndex == [isNil |-> TRUE, path |-> <<>>]
Index(p) == [isNil |-> FALSE, path |-> p]

NoLookup == [obj |-> NilObj, index |-> NilIndex, indirect |-> FALSE]

IsPointer(t) == t = "*S"
Deref(t) == IF IsPointer(t) THEN "S" ELSE t

----------------------------------------------------------------------------
(* LookupFieldOrMethod: the member lookup collaborator *)

\* The entries one embedding level below the entries of frontier.
NextFrontier(frontier, ep) ==
    UNION {{[typ |-> Embedded(f.typ)[k],
             path |-> Append(f.path, k - 1),
             indirect |-> f.indirect \/ ep[Embedded(f.typ)[k]]] :
                k \in 1..Len(Embedded(f.typ))} : f \in frontier}

\* Index of the member inside its declaring type: embedded fields come first.
MemberIndex(t, k) == IF k = "field" THEN Len(Embedded(t)) ELSE 0

RECURSIVE LookupAt(_, _, _, _)
\* Breadth-first search: the shallowest depth at which nm is declared decides.
LookupAt(frontier, d, ep, nm) ==
    LET hits == {f \in frontier : d[f.typ] # "none"} IN
    IF frontier = {} THEN NoLookup
    ELSE IF Cardinality(hits) = 1
        THEN LET f == CHOOSE f \in hits : TRUE IN
             [obj |-> Member(f.typ, d[f.typ], nm),
              index |-> Index(Append(f.path, MemberIndex(f.typ, d[f.typ]))),
              indirect |-> f.indirect]
    ELSE IF Cardinality(hits) > 1
        THEN [obj |-> NilObj,
              index |-> Index((CHOOSE f \in hits :
                                \A g \in hits : f.path[1] <= g.path[1]).path),
              indirect |-> FALSE]
    ELSE LookupAt(NextFrontier(frontier, ep), d, ep, nm)

LookupFieldOrMethod(t, d, ep, nm) ==
    LookupAt({[typ |-> Deref(t), path |-> <<>>, indirect |-> IsPointer(t)]},
             d, ep, nm)

\* Depth at which the model's struct types sit below S.
DepthOf(t) == CASE t = "S" -> 0 [] t = "C" -> 2 [] OTHER -> 1

----------------------------------------------------------------------------
(* checker.selector *)

\* Mutant of ErrorExit: the mode is left as it was.
ErrorExit_KeepMode(xx) == [xx EXCEPT !.expr = "e"]

\* Error: lines 317-319
ErrorExit(xx) == [xx EXCEPT !.mode = "invalid", !.expr = "e"]

\* lines 189-207
PackageOperand(exp) ==
    [mode |-> CASE exp.kind = "Const" -> "constant"
                [] exp.kind = "TypeName" -> "typexpr"
                [] exp.kind = "Var" -> "variable"
                [] OTHER -> "value",
     typ |-> Basic("int"),
     val |-> IF exp.kind = "Const" THEN "val" ELSE "",
     expr |-> "e"]

\* Mutant of PackageDiag: the export check comes before the lookup result.
PackageDiag_ExportFirst(exp, nm) ==
    IF ~IsExported(nm) THEN "UnexportedPackageMember"
    ELSE IF exp.kind = "nil" THEN "UndeclaredPackageMember"
    ELSE ""

\* lines 175-184: the diagnostic of a package-qualified lookup, "" if none
PackageDiag(exp, nm) ==
    IF exp.kind = "nil" THEN "UndeclaredPackageMember"
    ELSE IF ~IsExported(nm) THEN "UnexportedPackageMember"
    ELSE ""

\* Mutant of LookupDiag: index is not consulted.
LookupDiag_NoIndex(l) == "NoSuchMember"

\* lines 218-224
LookupDiag(l) ==
    IF l.index.isNil THEN "NoSuchMember" ELSE "AmbiguousSelector"

\* Mutant of MethodExprNotInSet: the test of indirect is inverted.
MethodExprNotInSet_Indirect(indirect, m) == indirect /\ PtrRecv(m)

\* line 240
MethodExprNotInSet(indirect, m) == ~indirect /\ PtrRecv(m)

\* lines 247-257
MethodExprSignature(recv, m) ==
    [params |-> <<recv>> \o m.sig.params,
     results |-> m.sig.results,
     isVariadic |-> m.sig.isVariadic]

\* Mutant of MethodNotInSet: addressability of the base is not consulted.
MethodNotInSet_NoMode(indirect, mode, obj) == ~indirect /\ PtrRecv(obj)

\* line 274
MethodNotInSet(indirect, mode, obj) ==
    ~indirect /\ mode # "variable" /\ PtrRecv(obj)

Record(ident, obj) == [ident |-> ident, obj |-> obj]

\* Mutant of RecordFound: the found binding is not recorded.
RecordFound_Skip(rec, ident, obj) == rec

\* line 229
RecordFound(rec, ident, obj) == Append(rec, Record(ident, obj))

SelUnchanged ==
    UNCHANGED <<callee, matched, evaluated, sig, args, ellipsis, passSlice, n, i>>

\* lines 171-209: e.X names an imported package
SelectorPackage ==
    /\ pc = "idle"
    /\ \E nm \in Names, k \in {"nil", "Const", "TypeName", "Var", "Func"} :
        LET exp == IF k = "nil" THEN NilObj ELSE PkgMember(k, nm)
            d == PackageDiag(exp, nm)
        IN /\ sel' = nm
           /\ isPkg' = TRUE
           /\ base' = base
           /\ lk' = [NoLookup EXCEPT !.obj = exp]
           /\ IF d # ""
              THEN /\ diags' = Append(diags, d)
                   /\ recorded' = Append(recorded, Record("pkg", PackageObj))
                   /\ x' = ErrorExit(x)
              ELSE /\ diags' = diags
                   /\ recorded' = recorded \o <<Record("pkg", PackageObj),
                                                Record(nm, exp)>>
                   /\ x' = PackageOperand(exp)
    /\ op' = "selector"
    /\ pc' = "done"
    /\ UNCHANGED <<decl, embPtr>>
    /\ SelUnchanged

\* lines 212-215: e.X is evaluated as an expression or a type
SelectorBase ==
    /\ pc = "idle"
    /\ \E nm \in Names, d \in [StructTypes -> DeclKinds],
          ep \in [EmbeddedTypes -> BOOLEAN],
          m \in {"invalid", "value", "variable", "typexpr"},
          t \in {"S", "*S"} :
        /\ sel' = nm
        /\ isPkg' = FALSE
        /\ base' = (IF m = "invalid" THEN InvalidOperand
                    ELSE Operand(m, Basic(t)))
        /\ decl' = d
        /\ embPtr' = ep
        /\ IF m = "invalid"
           THEN /\ t = "S"
                /\ x' = ErrorExit(InvalidOperand)
                /\ pc' = "done"
           ELSE /\ x' = Operand(m, Basic(t))
                /\ pc' = "lookup"
    /\ op' = "selector"
    /\ UNCHANGED <<diags, recorded, lk>>
    /\ SelUnchanged

\* lines 217-229
SelectorLookup ==
    /\ pc = "lookup"
    /\ LET l == LookupFieldOrMethod(x.typ.name, decl, embPtr, sel) IN
        /\ lk' = l
        /\ IF l.obj.kind = "nil"
           THEN /\ diags' = Append(diags, LookupDiag(l))
                /\ x' = ErrorExit(x)
                /\ pc' = "done"
                /\ UNCHANGED recorded
           ELSE /\ recorded' = RecordFound(recorded, sel, l.obj)
                /\ pc' = IF x.mode = "typexpr" THEN "methodexpr" ELSE "regular"
                /\ UNCHANGED <<diags, x>>
    /\ UNCHANGED <<op, isPkg, base, sel, decl, embPtr>>
    /\ SelUnchanged

\* lines 231-257: method expression
SelectorMethodExpr ==
    /\ pc = "methodexpr"
    /\ IF lk.obj.kind # "Func"
       THEN /\ diags' = Append(diags, "NoSuchMethod")
            /\ x' = ErrorExit(x)
       ELSE IF MethodExprNotInSet(lk.indirect, lk.obj)
       THEN /\ diags' = Append(diags, "NotInMethodSet")
            /\ x' = ErrorExit(x)
       ELSE /\ diags' = diags
            /\ x' = [mode |-> "value",
                     typ |-> SigType(MethodExprSignature(x.typ.name, lk.obj)),
                     val |-> x.val, expr |-> "e"]
    /\ pc' = "done"
    /\ UNCHANGED <<op, isPkg, base, recorded, sel, decl, embPtr, lk>>
    /\ SelUnchanged

\* lines 259-315: regular selector
SelectorRegular ==
    /\ pc = "regular"
    /\ IF lk.obj.kind = "Var"
       THEN /\ diags' = diags
            /\ x' = [mode |-> "variable", typ |-> Basic("int"),
                     val |-> x.val, expr |-> "e"]
       ELSE IF MethodNotInSet(lk.indirect, x.mode, lk.obj)
       THEN /\ diags' = Append(diags, "NotInMethodSet")
            /\ x' = ErrorExit(x)
       ELSE /\ diags' = diags
            /\ x' = [mode |-> "value", typ |-> SigType(lk.obj.sig),
                     val |-> x.val, expr |-> "e"]
    /\ pc' = "done"
    /\ UNCHANGED <<op, isPkg, base, recorded, sel, decl, embPtr, lk>>
    /\ SelUnchanged

----------------------------------------------------------------------------
(* Specification *)

Init ==
    /\ pc = "idle"
    /\ op = "none"
    /\ callee = "none"
    /\ isPkg = FALSE
    /\ base = InvalidOperand
    /\ x = InvalidOperand
    /\ diags = <<>>
    /\ matched = <<>>
    /\ evaluated = <<>>
    /\ recorded = <<>>
    /\ sig = NoSig
    /\ args = <<>>
    /\ ellipsis = FALSE
    /\ passSlice = FALSE
    /\ n = 0
    /\ i = 0
    /\ sel = ""
    /\ decl = [t \in StructTypes |-> "none"]
    /\ embPtr = [t \in EmbeddedTypes |-> FALSE]
    /\ lk = NoLookup

Next ==
    \/ CallInvalidFun
    \/ CallConversion
    \/ CallBuiltin
    \/ CallNotCallable
    \/ CallSignature
    \/ CallSingleArg
    \/ CallTupleStep
    \/ CallMultiStep
    \/ CallArity
    \/ CallResult
    \/ SelectorPackage
    \/ SelectorBase
    \/ SelectorLookup
    \/ SelectorMethodExpr
    \/ SelectorRegular

Spec == Init /\ [][Next]_vars

----------------------------------------------------------------------------
(* Vocabulary of the properties *)

Diags == {diags[k] : k \in DOMAIN diags}

Count(d) == Cardinality({k \in DOMAIN diags : diags[k] = d})

\* A function/method call has returned.
SigCallDone == pc = "done" /\ op = "call" /\ callee = "signature"

\* A selector has returned.
SelDone == pc = "done" /\ op = "selector"

\* The call's only argument is a multi-valued call that evaluated.
SingleTuple ==
    Len(args) = 1 /\ args[1].mode # "invalid" /\ args[1].typ.kind = "tuple"

\* The call's only argument failed to evaluate.
SingleFailed == Len(args) = 1 /\ args[1].mode = "invalid"

\* The positional arguments considered, plus one for a variadic signature.
ConsideredCount ==
    (IF SingleTuple THEN Len(args[1].typ.vars) ELSE Len(args))
    + (IF sig.isVariadic THEN 1 ELSE 0)

\* The positions handed to checker.argument, in order: every component of a
\* single multi-valued argument, else every argument that evaluated.
ExpectedPositions ==
    IF SingleTuple THEN Indices(Len(args[1].typ.vars))
    ELSE SelectSeq(Indices(Len(args)), LAMBDA j : args[j + 1].mode # "invalid")

MatchedPositions == [k \in DOMAIN matched |-> matched[k].pos]

\* The operand mode the result count of sig prescribes.
ResultMode == IF Len(sig.results) = 0 THEN "novalue" ELSE "value"

UserErrors ==
    {"NotCallable", "SpreadOnNonVariadic", "TooFewArguments",
     "TooManyArguments", "SpreadPositionMismatch", "SpreadTypeMismatch",
     "ArgumentTypeMismatch", "UndeclaredPackageMember",
     "UnexportedPackageMember", "NoSuchMember", "AmbiguousSelector",
     "NoSuchMethod", "NotInMethodSet"}

----------------------------------------------------------------------------
(* C1 *)

\* C1 as stated: whenever the considered argument count (expressions, or
\* tuple components, plus one if variadic) is smaller than the parameter
\* count, the call reports TooFewArguments -- at every call site.
C1_AsStated ==
    SigCallDone =>
        (ConsideredCount < Len(sig.params) => "TooFewArguments" \in Diags)

\* C1 amended: TooFewArguments is reported whenever the considered count is
\* smaller than the parameter count, except that a call whose single argument
\* failed to evaluate never reports it; calls with several arguments report
\* it also when some of them failed to evaluate.
C1_TooFewExceptFailedSingle ==
    SigCallDone =>
        /\ (~SingleFailed /\ ConsideredCount < Len(sig.params))
              => Count("TooFewArguments") = 1
        /\ SingleFailed => "TooFewArguments" \notin Diags
        /\ ConsideredCount >= Len(sig.params) => "TooFewArguments" \notin Diags

C1_Witness ==
    /\ SigCallDone
    /\ Len(args) = 2
    /\ args[1].mode = "invalid"
    /\ Len(sig.params) = 3
    /\ ~sig.isVariadic
    /\ "TooFewArguments" \in Diags

----------------------------------------------------------------------------
(* C2 *)

\* C2: the components of a single multi-valued argument are matched one by
\* one, in order, component i against position i, spread only on the last;
\* (int, string) against (int, string) is silent, and against a one-parameter
\* non-variadic callee the second component is reported as TooManyArguments
\* while the first is checked against parameter 0.
C2_TupleUnpacked ==
    (SigCallDone /\ SingleTuple) =>
        LET v == args[1].typ.vars
            k == Len(v)
        IN /\ evaluated = <<0>>
           /\ Len(matched) = k
           /\ \A j \in 1..k :
                /\ matched[j].pos = j - 1
                /\ matched[j].arg = v[j]
                /\ matched[j].spread = (ellipsis /\ sig.isVariadic /\ j = k)
           /\ (/\ v = <<"int", "string">>
               /\ sig.params = <<"int", "string">>
               /\ ~sig.isVariadic
               /\ ~ellipsis) => diags = <<>>
           /\ (Len(sig.params) = 1 /\ ~sig.isVariadic) =>
                /\ matched[1].expected = sig.params[1]
                /\ \A j \in 2..k : matched[j].diag = "TooManyArguments"
                /\ Count("TooManyArguments") = k - 1

C2_Witness ==
    /\ SigCallDone
    /\ SingleTuple
    /\ args[1].typ.vars = <<"int", "string">>
    /\ sig.params = <<"int">>
    /\ ~sig.isVariadic
    /\ ~ellipsis
    /\ diags = <<"TooManyArguments">>

----------------------------------------------------------------------------
(* C3 *)

\* C3: in a call of a variadic signature with p parameters, the last of type
\* []E, every argument handed to the matcher is matched as follows: a
\* non-spread argument at position i >= p-1 against E (so a slice passed
\* without spread is an ArgumentTypeMismatch); the spread argument at
\* position p-1 once, against []E as a whole (or rejected as not being a
\* sequence), never against E; a non-spread argument at i < p-1 against
\* parameter i's declared type.
C3_VariadicExpectedTypes ==
    (SigCallDone /\ sig.isVariadic) =>
        LET p == Len(sig.params)
            seqT == sig.params[p]
        IN /\ MatchedPositions = ExpectedPositions
           /\ \A k \in DOMAIN matched :
                LET e == matched[k] IN
                /\ (~e.spread /\ e.pos >= p - 1) =>
                      /\ e.expected = Elt(seqT)
                      /\ IsSlice(e.arg) => e.diag = "ArgumentTypeMismatch"
                /\ (e.spread /\ e.pos = p - 1) =>
                      /\ \A m \in DOMAIN matched : matched[m].pos = p - 1 => m = k
                      /\ IF IsSlice(e.arg)
                         THEN /\ e.expected = seqT
                              /\ e.diag = (IF e.arg = seqT THEN ""
                                           ELSE "ArgumentTypeMismatch")
                         ELSE e.expected = "" /\ e.diag = "SpreadTypeMismatch"
                /\ (~e.spread /\ e.pos < p - 1) =>
                      e.expected = sig.params[e.pos + 1]

C3_Witness ==
    /\ SigCallDone
    /\ sig.params = <<"int", "[]string">>
    /\ sig.isVariadic
    /\ ~ellipsis
    /\ Len(args) = 2
    /\ args[1].typ.name = "int"
    /\ args[2].typ.name = "[]string"
    /\ Len(matched) = 2
    /\ matched[1].expected = "int"
    /\ matched[2].expected = "string"
    /\ diags = <<"ArgumentTypeMismatch">>

----------------------------------------------------------------------------
(* C4 *)

\* C4: a call with a trailing ... to a non-variadic signature reports
\* SpreadOnNonVariadic exactly once, first; every argument expression is
\* still evaluated, every argument that evaluated is matched at its position
\* with spread off, no spread mismatch is reported, and the arity check and
\* the result classification have run.
C4_SpreadOnNonVariadic ==
    (SigCallDone /\ ellipsis /\ ~sig.isVariadic) =>
        /\ Count("SpreadOnNonVariadic") = 1
        /\ diags[1] = "SpreadOnNonVariadic"
        /\ evaluated = Indices(Len(args))
        /\ MatchedPositions = ExpectedPositions
        /\ \A k \in DOMAIN matched : ~matched[k].spread
        /\ "SpreadPositionMismatch" \notin Diags
        /\ "SpreadTypeMismatch" \notin Diags
        /\ (~SingleFailed /\ ConsideredCount < Len(sig.params))
              => diags[Len(diags)] = "TooFewArguments"
        /\ x.mode = ResultMode
        /\ x.expr = "e"

C4_Witness ==
    /\ SigCallDone
    /\ ellipsis
    /\ ~sig.isVariadic
    /\ Len(args) = 2
    /\ args[1].mode = "invalid"
    /\ args[2].typ.name = "[]string"
    /\ Len(sig.params) = 3
    /\ Len(matched) = 1
    /\ diags[Len(diags)] = "TooFewArguments"

----------------------------------------------------------------------------
(* C5 *)

\* C5 as stated: pkg.name with an unexported name always fails with
\* UnexportedPackageMember and an invalid operand, whether or not the
\* package's member table contains name.
C5_AsStated ==
    (SelDone /\ isPkg /\ ~IsExported(sel)) =>
        /\ diags = <<"UnexportedPackageMember">>
        /\ x.mode = "invalid"

\* C5 amended: pkg.name with an unexported name always fails with an invalid
\* operand; the diagnostic is UnexportedPackageMember when the package's
\* member table contains name and UndeclaredPackageMember when it does not.
C5_UnexportedOrUndeclared ==
    (SelDone /\ isPkg /\ ~IsExported(sel)) =>
        /\ x.mode = "invalid"
        /\ x.expr = "e"
        /\ diags = (IF lk.obj.kind # "nil"
                    THEN <<"UnexportedPackageMember">>
                    ELSE <<"UndeclaredPackageMember">>)

C5_Witness ==
    /\ SelDone
    /\ isPkg
    /\ ~IsExported(sel)
    /\ lk.obj.kind = "Func"
    /\ diags = <<"UnexportedPackageMember">>
    /\ x.mode = "invalid"

----------------------------------------------------------------------------
(* C6 *)

\* The base is a type and the member found is a method.
MethodExprDone ==
    SelDone /\ ~isPkg /\ base.mode = "typexpr" /\ lk.obj.kind = "Func"

\* What a method expression yields on success: the base type prepended to
\* the parameters the method was declared with, results and variadic flag
\* as declared.
MethodExprYields ==
    /\ diags = <<>>
    /\ x.mode = "value"
    /\ x.expr = "e"
    /\ x.typ.kind = "signature"
    /\ x.typ.params = <<base.typ.name>> \o MethodSig(lk.obj.owner).params
    /\ x.typ.results = MethodSig(lk.obj.owner).results
    /\ x.typ.isVariadic = MethodSig(lk.obj.owner).isVariadic

MethodExprFails ==
    /\ diags = <<"NotInMethodSet">>
    /\ x.mode = "invalid"

\* C6 as stated: a method expression reports NotInMethodSet and is invalid
\* exactly when reaching the member required indirection and the receiver
\* is pointer-typed; otherwise it yields the synthesized signature.
C6_AsStated ==
    MethodExprDone =>
        IF lk.indirect /\ lk.obj.ptrRecv THEN MethodExprFails
        ELSE MethodExprYields

\* C6 amended: a method expression reports NotInMethodSet and is invalid
\* exactly when reaching the member required no indirection and the
\* receiver is pointer-typed; otherwise it yields mode value with the
\* synthesized signature (base type first, then the method's parameters,
\* results and variadic flag unchanged).
C6_MethodExprNoIndirection ==
    MethodExprDone =>
        IF ~lk.indirect /\ lk.obj.ptrRecv THEN MethodExprFails
        ELSE MethodExprYields

C6_Witness ==
    /\ MethodExprDone
    /\ base.typ.name = "S"
    /\ lk.obj.owner = "B"
    /\ lk.obj.ptrRecv
    /\ lk.indirect
    /\ x.mode = "value"
    /\ x.typ.params = <<"S", "int", "[]string">>
    /\ x.typ.isVariadic

----------------------------------------------------------------------------
(* C7 *)

\* The exact condition of NotInMethodSet for a method found by an ordinary
\* selector, and the operand it yields otherwise.
MethodSetOfValue ==
    (SelDone /\ ~isPkg /\ base.mode \in {"value", "variable"}
             /\ lk.obj.kind = "Func") =>
        IF lk.obj.ptrRecv /\ base.mode # "variable" /\ ~lk.indirect
        THEN /\ diags = <<"NotInMethodSet">>
             /\ x.mode = "invalid"
        ELSE /\ diags = <<>>
             /\ x.mode = "value"
             /\ x.typ = SigType(MethodSig(lk.obj.owner))

\* A pointer-receiver method declared by S itself, selected on a base of
\* type S.
DirectPtrMethod ==
    (SelDone /\ ~isPkg /\ base.typ.name = "S" /\ decl["S"] = "ptrmethod") =>
        /\ base.mode = "value" => diags = <<"NotInMethodSet">>
        /\ base.mode = "variable" => (diags = <<>> /\ x.mode = "value")

\* C7: an ordinary selector that found a method reports NotInMethodSet and
\* is invalid exactly when the method has a pointer receiver, the base is
\* not a variable and the lookup involved no indirection; otherwise it
\* yields mode value with the method's function type.  In particular a
\* pointer-receiver method of S fails on a non-addressable value of type S
\* and succeeds on a variable of type S.
C7_ValueSelectorMethod == MethodSetOfValue /\ DirectPtrMethod

C7_Witness ==
    /\ SelDone
    /\ ~isPkg
    /\ base.mode = "variable"
    /\ base.typ.name = "S"
    /\ decl["S"] = "ptrmethod"
    /\ ~lk.indirect
    /\ x.mode = "value"
    /\ diags = <<>>

----------------------------------------------------------------------------
(* C8 *)

\* C8 as stated: a checkCall or checkSelector that reported a user-facing
\* error returns an operand of mode invalid.
C8_AsStated ==
    (pc = "done" /\ Diags \cap UserErrors # {}) => x.mode = "invalid"

\* The diagnostics of a function call that do not end it.
NonFatalCallErrors ==
    {"SpreadOnNonVariadic", "TooFewArguments", "TooManyArguments",
     "SpreadPositionMismatch", "SpreadTypeMismatch", "ArgumentTypeMismatch"}

\* C8 amended: NotCallable and every error reported by checkSelector leave
\* the returned operand invalid; the diagnostics of a function call
\* (SpreadOnNonVariadic, TooFewArguments, TooManyArguments,
\* SpreadPositionMismatch, SpreadTypeMismatch, ArgumentTypeMismatch) are
\* non-fatal: the call still returns mode novalue or value as the result
\* count of the signature prescribes.
C8_FatalAndNonFatalErrors ==
    pc = "done" =>
        /\ (op = "selector" /\ diags # <<>>) => x.mode = "invalid"
        /\ "NotCallable" \in Diags => x.mode = "invalid"
        /\ Diags \cap NonFatalCallErrors # {} =>
              (callee = "signature" /\ x.mode = ResultMode)
        /\ callee = "signature" => x.mode = ResultMode

C8_Witness ==
    /\ SelDone
    /\ ~isPkg
    /\ base.mode = "typexpr"
    /\ diags = <<"NoSuchMethod">>
    /\ x.mode = "invalid"

----------------------------------------------------------------------------
(* C9 *)

\* The types, at embedding depth k below the base, that declare sel.
DeclaringAt(k) == {t \in StructTypes : DepthOf(t) = k /\ decl[t] # "none"}

Depths == {DepthOf(t) : t \in StructTypes}

\* The shallowest depth at which sel is declared.
Shallowest == CHOOSE k \in Depths :
    DeclaringAt(k) # {} /\ \A j \in Depths : j < k => DeclaringAt(j) = {}

DeclaredSomewhere == \E k \in Depths : DeclaringAt(k) # {}

\* C9: an ordinary selector over a type with embedded members reports
\* AmbiguousSelector, is invalid and resolves to nothing when two or more
\* members declare the name at the shallowest depth; it resolves to the one
\* member at the shallowest depth, without an ambiguity diagnostic, when
\* there is exactly one; it reports NoSuchMember when the name is declared
\* at no depth.
C9_ShallowestOrAmbiguous ==
    (SelDone /\ ~isPkg /\ base.mode # "invalid") =>
        IF ~DeclaredSomewhere
        THEN /\ diags = <<"NoSuchMember">>
             /\ x.mode = "invalid"
             /\ recorded = <<>>
        ELSE IF Cardinality(DeclaringAt(Shallowest)) >= 2
        THEN /\ diags = <<"AmbiguousSelector">>
             /\ x.mode = "invalid"
             /\ recorded = <<>>
        ELSE /\ lk.obj.owner \in DeclaringAt(Shallowest)
             /\ "AmbiguousSelector" \notin Diags
             /\ "NoSuchMember" \notin Diags
             /\ recorded = <<Record(sel, lk.obj)>>

C9_Witness ==
    /\ SelDone
    /\ ~isPkg
    /\ base.mode = "value"
    /\ decl = [t \in StructTypes |->
                 IF t \in {"A", "B"} THEN "field" ELSE
                 IF t = "C" THEN "method" ELSE "none"]
    /\ diags = <<"AmbiguousSelector">>
    /\ x.mode = "invalid"

----------------------------------------------------------------------------
(* C10 *)

\* The member binding of the selected name is in the recorder's log.
MemberRecorded == \E k \in DOMAIN recorded : recorded[k] = Record(sel, lk.obj)

\* Something other than the package name has been recorded.
AnyMemberRecorded == \E k \in DOMAIN recorded : recorded[k].obj.kind # "Package"

\* C10 as stated: on every error exit of checkSelector reached after a
\* binding for the name was found (UnexportedPackageMember, NoSuchMethod,
\* NotInMethodSet) the binding has been recorded; on error exits reached
\* before one was found no member binding is recorded.
C10_AsStated ==
    (SelDone /\ x.mode = "invalid") =>
        IF lk.obj.kind # "nil" THEN MemberRecorded ELSE ~AnyMemberRecorded

\* C10 amended: on the NoSuchMethod and NotInMethodSet exits the found
\* binding has been recorded before the invalid operand is returned; on the
\* UnexportedPackageMember exit the member, although found in the package's
\* table, is not recorded (only the package binding is); on the exits
\* reached before any member was found (UndeclaredPackageMember, invalid
\* base, NoSuchMember, AmbiguousSelector) no member binding is recorded.
C10_RecordedOnMemberErrors ==
    (SelDone /\ x.mode = "invalid") =>
        IF Diags \cap {"NoSuchMethod", "NotInMethodSet"} # {}
        THEN lk.obj.kind # "nil" /\ recorded = <<Record(sel, lk.obj)>>
        ELSE IF isPkg
        THEN recorded = <<Record("pkg", PackageObj)>>
        ELSE recorded = <<>>

C10_Witness ==
    /\ SelDone
    /\ ~isPkg
    /\ base.mode = "value"
    /\ diags = <<"NotInMethodSet">>
    /\ x.mode = "invalid"
    /\ recorded = <<Record(sel, lk.obj)>>
    /\ lk.obj.kind = "Func"

====
